---------------------------- MODULE Spec2Model ----------------------------
(***************************************************************************)
(* Model of the tremor-showcase frontend: the App screen machine, the      *)
(* questionnaire, the spiral canvas, the two ProcessingScreen variants     *)
(* (client-side demo scorer, backend-backed) and the report's severity     *)
(* classification.                                                         *)
(*                                                                         *)
(* Number representation (JavaScript doubles are modelled in fixed point): *)
(*   pixel coordinates, a           whole pixels                           *)
(*   distances, radii, metrics      1/100 pixel                            *)
(*   angles                         1/1000 radian                          *)
(*   b (growth rate)                1/1000 pixel per radian                *)
(*   scores, Math.random()          1/1000                                 *)
(*   timestamps                     milliseconds                           *)
(***************************************************************************)
EXTENDS Integers, Sequences, FiniteSets

VARIABLES
    \* App.tsx
    currentScreen, questionnaireData, drawingData, spiralParams, scoreData,
    \* QuestionnaireScreen
    age, hasMovementDisorder, disorderType,
    \* SpiralCanvas
    canvasSize, isDrawing, points, spiralParamsRef, elapsed,
    \* ProcessingScreen
    variant, error, isProcessing, stage, pendingResult, fetches,
    \* ReportScreen
    severity, reportMetrics,
    \* scoring runs repeated on the same props (ScorerSpec only)
    results

appVars == <<currentScreen, questionnaireData, drawingData, spiralParams, scoreData>>
formVars == <<age, hasMovementDisorder, disorderType>>
canvasVars == <<canvasSize, isDrawing, points, spiralParamsRef, elapsed>>
procVars == <<error, isProcessing, stage, pendingResult, fetches>>
reportVars == <<severity, reportMetrics>>
vars == <<appVars, formVars, canvasVars, variant, procVars, reportVars, results>>

----------------------------------------------------------------------------
(* Bounds of the model *)

\* longest trace the canvas records in Spec
MaxPoints == 3
\* largest value of Date.now() - startTimeRef.current, in ms, in Spec
MaxElapsed == 2
\* longest short synthetic trace in ScorerSpec
MaxShortLen == 3
\* longest long synthetic trace in ScorerSpec (the long traces start at the
\* deviation loop's cap)
MaxLongLen == 101

----------------------------------------------------------------------------
(* Values *)

Null == [isNull |-> TRUE]

\* the error state of ProcessingScreen once set: its message
Failure(message) == [message |-> message]

Screens == {"home", "questionnaire", "instruction", "canvas", "processing", "report"}

\* getBoundingClientRect() of the square canvas: its side, in pixels
CanvasSizes == {200, 240}

\* pointer positions relative to the canvas (clientX - rect.left, ...)
Pt(x, y) == [x |-> x, y |-> y]
PointerPositions == {Pt(3, 4), Pt(100, 100), Pt(150, 20)}

\* values of Math.random(), in 1/1000 (Math.random() is in [0, 1))
RandomDraws == {0, 250, 500, 750, 995}

AgeValues == {"", "45"}
DisorderTypes == {"Essential Tremor"}

EmptyQuestionnaire == [age |-> "", hasMovementDisorder |-> "", disorderType |-> ""]

----------------------------------------------------------------------------
(* Arithmetic *)

Min(a, b) == IF a <= b THEN a ELSE b
Max(a, b) == IF a >= b THEN a ELSE b
Abs(a) == IF a >= 0 THEN a ELSE -a

\* floor of the square root of n by Newton's iteration from x >= sqrt(n)
RECURSIVE SqrtNewton(_, _)
SqrtNewton(n, x) ==
    IF x = 0 THEN 0
    ELSE LET y == (x + n \div x) \div 2
         IN  IF y >= x THEN x ELSE SqrtNewton(n, y)

\* Math.sqrt(dx*dx + dy*dy) for whole pixels dx, dy, in 1/100 pixel
Hypot(dx, dy) == SqrtNewton((dx * dx + dy * dy) * 10000, 100 * (Abs(dx) + Abs(dy)))

\* Math.PI in 1/1000 radian
PiMilli == 3142

\* atan(z/1000) for 0 <= z <= 1000, in 1/1000 radian (polynomial
\* pi/4 z - z (z - 1) (0.2447 + 0.0663 z), within 0.002 radian)
AtanUnit(z) ==
    (7854 * z) \div 10000 + (z * (1000 - z) * (2447 + (663 * z) \div 1000)) \div 10000000

\* Math.atan2(y, x) in 1/1000 radian, in (-pi, pi]
Atan2(y, x) ==
    LET ax == Abs(x)
        ay == Abs(y)
        base == IF ax = 0 /\ ay = 0 THEN 0
                ELSE IF ax >= ay THEN AtanUnit((ay * 1000) \div ax)
                ELSE (PiMilli \div 2) - AtanUnit((ax * 1000) \div ay)
        unsigned == IF x >= 0 THEN base ELSE PiMilli - base
    IN  IF y >= 0 THEN unsigned ELSE -unsigned

\* Number.prototype.toFixed(2) of a non-negative value held in 1/100:
\* the decimal string, as its integer part and its two decimals
ToFixed2(v) == [int |-> v \div 100, frac |-> v % 100]

----------------------------------------------------------------------------
(* SpiralCanvas: the reference spiral *)

Turns == 3

\* a, b of r = a + b * theta, returned by drawReferenceSpiral
DrawReferenceSpiral(width, height) ==
    LET maxRadiusCenti == Min(width, height) * 35
        totalAngle == Turns * 2 * PiMilli
    IN  [a |-> 0, b |-> (maxRadiusCenti * 10000) \div totalAngle]

\* the center around which drawReferenceSpiral draws the spiral
CenterX(width) == width \div 2
CenterY(height) == height \div 2

----------------------------------------------------------------------------
(* ProcessingScreen (demo): calculateDemoScore *)

DeviationCap == 100

\* dist of the loop at index i (2 <= i <= n): distance between points i-1, i
SegmentDist(pts, i) == Hypot(pts[i].x - pts[i - 1].x, pts[i].y - pts[i - 1].y)

\* the loops' running sums, over the index range lo..hi (summed by halves
\* to keep the evaluation shallow)
RECURSIVE TotalDistance(_, _, _)
TotalDistance(pts, lo, hi) ==
    IF lo > hi THEN 0
    ELSE IF lo = hi THEN SegmentDist(pts, lo)
    ELSE LET mid == (lo + hi) \div 2
         IN  TotalDistance(pts, lo, mid) + TotalDistance(pts, mid + 1, hi)

RECURSIVE Variations(_, _, _)
Variations(pts, lo, hi) ==
    IF lo > hi THEN 0
    ELSE IF lo = hi THEN Abs(SegmentDist(pts, lo) - SegmentDist(pts, lo - 1))
    ELSE LET mid == (lo + hi) \div 2
         IN  Variations(pts, lo, mid) + Variations(pts, mid + 1, hi)

\* variant of AvgVariation: the divisor is the number of points
AvgVariation_OverAllPoints(pts) == Variations(pts, 3, Len(pts)) \div Max(1, Len(pts))

AvgVariation(pts) == Variations(pts, 3, Len(pts)) \div Max(1, Len(pts) - 2)
AvgDistance(pts) == TotalDistance(pts, 2, Len(pts)) \div Max(1, Len(pts) - 1)

\* the angle the deviation loop computes for a point
PointAngle(point, params) == Atan2(point.y - params.a, point.x - params.a)

\* one term of the deviation loop: |actualRadius - idealRadius| of a point
PointDeviation(point, params) ==
    LET angle == PointAngle(point, params)
        idealRadius == params.a * 100 + (params.b * angle) \div 10000
        actualRadius == Hypot(point.x - params.a, point.y - params.a)
    IN  Abs(actualRadius - idealRadius)

RECURSIVE DeviationSum(_, _, _, _)
DeviationSum(pts, params, lo, hi) ==
    IF lo > hi THEN 0
    ELSE IF lo = hi THEN PointDeviation(pts[lo], params)
    ELSE LET mid == (lo + hi) \div 2
         IN  DeviationSum(pts, params, lo, mid) + DeviationSum(pts, params, mid + 1, hi)

DeviationCount(pts) == Min(DeviationCap, Len(pts))

Deviation(pts, params) ==
    DeviationSum(pts, params, 1, DeviationCount(pts)) \div DeviationCount(pts)

\* the angles the deviation loop multiplies b with, in loop order
Thetas(pts, params) ==
    [i \in 1..DeviationCount(pts) |-> PointAngle(pts[i], params)]

\* variant of SmoothnessScore: the cap at 2.0 left out
SmoothnessScore_Uncapped(avgVariation) == avgVariation

SmoothnessScore(avgVariation) == Min(avgVariation, 2000)

\* variant of DeviationScore: the score falls as the deviation grows
DeviationScore_Inverted(deviation) == 2000 - Min((deviation * 10) \div 50, 2000)

DeviationScore(deviation) == Min((deviation * 10) \div 50, 2000)

\* variant of AdjustedScore: 0.5 instead of 0.3 for a movement disorder
AdjustedScore_LargerBonus(patientInfo, avgVariation, deviation) ==
    LET baseScore == (SmoothnessScore(avgVariation) + DeviationScore(deviation)) \div 2
    IN  IF patientInfo.hasMovementDisorder = "yes" THEN baseScore + 500 ELSE baseScore

AdjustedScore(patientInfo, avgVariation, deviation) ==
    LET baseScore == (SmoothnessScore(avgVariation) + DeviationScore(deviation)) \div 2
    IN  IF patientInfo.hasMovementDisorder = "yes" THEN baseScore + 300 ELSE baseScore

\* variant of RandomFactor: a factor of 0.8 instead of 0.4
RandomFactor_Wide(random) == ((random - 500) * 8) \div 10

\* (Math.random() - 0.5) * 0.4
RandomFactor(random) == ((random - 500) * 4) \div 10

\* variant of FinalScore: the clamp left out
FinalScore_NoClamp(adjustedScore, randomFactor) == adjustedScore + randomFactor

FinalScore(adjustedScore, randomFactor) ==
    Max(0, Min(3000, adjustedScore + randomFactor))

\* the metrics calculateDemoScore derives from the trace
DemoFeatures(spiralPoints, params) ==
    [totalPoints |-> Len(spiralPoints),
     totalTime |-> IF Len(spiralPoints) > 0 THEN spiralPoints[Len(spiralPoints)].t ELSE 0,
     avgVariation |-> AvgVariation(spiralPoints),
     avgDistance |-> AvgDistance(spiralPoints),
     deviation |-> Deviation(spiralPoints, params)]

\* variant of ScoredResult: the random draw also shifts the reported
\* spiral deviation
ScoredResult_JitteredMetrics(patientInfo, f, random) ==
    LET adjustedScore == AdjustedScore(patientInfo, f.avgVariation, f.deviation)
    IN  [severity_score |-> FinalScore(adjustedScore, RandomFactor(random)),
         classification |-> "tremor_score_demo",
         features |-> [metrics |->
             [totalPoints |-> f.totalPoints,
              totalTime |-> f.totalTime,
              averageVariation |-> ToFixed2(f.avgVariation),
              averageDistance |-> ToFixed2(f.avgDistance),
              spiralDeviation |-> ToFixed2(f.deviation + random \div 10)]]]

\* scoredResult of calculateDemoScore; spiral_id (a timestamp used as an
\* identifier, read by nothing) is left out
ScoredResult(patientInfo, f, random) ==
    LET adjustedScore == AdjustedScore(patientInfo, f.avgVariation, f.deviation)
    IN  [severity_score |-> FinalScore(adjustedScore, RandomFactor(random)),
         classification |-> "tremor_score_demo",
         features |-> [metrics |->
             [totalPoints |-> f.totalPoints,
              totalTime |-> f.totalTime,
              averageVariation |-> ToFixed2(f.avgVariation),
              averageDistance |-> ToFixed2(f.avgDistance),
              spiralDeviation |-> ToFixed2(f.deviation)]]]

----------------------------------------------------------------------------
(* ReportScreen *)

NormalBelow == 300
MildBelow == 1000
ModerateBelow == 2000

\* variant of getSeverityClassification: <= in place of <
GetSeverityClassification_Inclusive(score) ==
    IF score <= NormalBelow THEN "Normal"
    ELSE IF score <= MildBelow THEN "Mild"
    ELSE IF score <= ModerateBelow THEN "Moderate"
    ELSE "Severe"

GetSeverityClassification(score) ==
    IF score < NormalBelow THEN "Normal"
    ELSE IF score < MildBelow THEN "Mild"
    ELSE IF score < ModerateBelow THEN "Moderate"
    ELSE "Severe"

\* a number as ReportScreen prints it: finite with a value, or 'Infinity'
Finite(value) == [finite |-> TRUE, value |-> value]
Infinity == [finite |-> FALSE, value |-> ToFixed2(0)]

\* variant of AvgSpeed: the duration left in milliseconds
AvgSpeed_PerMillisecond(totalPoints, totalTime) ==
    IF totalPoints > 0
    THEN IF totalTime = 0 THEN Infinity
         ELSE Finite(ToFixed2((2 * totalPoints * 100 + totalTime) \div (2 * totalTime)))
    ELSE Finite(ToFixed2(0))

\* avgSpeed, 'Points per second' to two decimals; a division by a zero
\* duration gives Infinity, which toFixed prints as such
AvgSpeed(totalPoints, totalTime) ==
    IF totalPoints > 0
    THEN IF totalTime = 0 THEN Infinity
         ELSE Finite(ToFixed2((2 * totalPoints * 100000 + totalTime) \div (2 * totalTime)))
    ELSE Finite(ToFixed2(0))

\* the 'basic metrics' ReportScreen computes from drawingData and shows:
\* totalTime in ms as computed, totalTimeShown as printed (seconds to one
\* decimal, in 1/10 s)
ReportMetrics(data) ==
    LET totalPoints == Len(data)
        totalTime == IF Len(data) > 0 THEN data[Len(data)].t ELSE 0
    IN  [totalPoints |-> totalPoints,
         totalTime |-> totalTime,
         totalTimeShown |-> (totalTime + 50) \div 100,
         avgSpeed |-> AvgSpeed(totalPoints, totalTime)]


----------------------------------------------------------------------------
(* Initial state: App just constructed, home screen shown *)

\* which of the two ProcessingScreen modules the build imports
Variants == {"demo", "backend"}

Init ==
    /\ currentScreen = "home"
    /\ questionnaireData = EmptyQuestionnaire
    /\ drawingData = <<>>
    /\ spiralParams = Null
    /\ scoreData = Null
    /\ age = ""
    /\ hasMovementDisorder = ""
    /\ disorderType = ""
    /\ canvasSize \in CanvasSizes
    /\ isDrawing = FALSE
    /\ points = <<>>
    /\ spiralParamsRef = Null
    /\ elapsed = 0
    /\ variant \in Variants
    /\ error = Null
    /\ isProcessing = TRUE
    /\ stage = "unmounted"
    /\ pendingResult = Null
    /\ fetches = <<>>
    /\ severity = ""
    /\ reportMetrics = Null
    /\ results = <<>>

----------------------------------------------------------------------------
(* App.tsx handlers and the screens' own handlers *)

\* variant of HandleStart: the questionnaire is skipped
HandleStart_SkipsQuestionnaire ==
    /\ currentScreen = "home"
    /\ currentScreen' = "instruction"
    /\ UNCHANGED <<questionnaireData, drawingData, spiralParams, scoreData,
                   formVars, canvasVars, variant, procVars, reportVars, results>>

HandleStart ==
    /\ currentScreen = "home"
    /\ currentScreen' = "questionnaire"
    \* QuestionnaireScreen mounts with empty fields
    /\ age' = ""
    /\ hasMovementDisorder' = ""
    /\ disorderType' = ""
    /\ UNCHANGED <<questionnaireData, drawingData, spiralParams, scoreData,
                   canvasVars, variant, procVars, reportVars, results>>

SetAge(v) ==
    /\ currentScreen = "questionnaire"
    /\ v # age
    /\ age' = v
    /\ UNCHANGED <<appVars, hasMovementDisorder, disorderType, canvasVars,
                   variant, procVars, reportVars, results>>

\* variant of SetHasMovementDisorder: the disorder type is kept on 'no'
SetHasMovementDisorder_KeepsType(v) ==
    /\ currentScreen = "questionnaire"
    /\ v # hasMovementDisorder
    /\ hasMovementDisorder' = v
    /\ UNCHANGED <<appVars, age, disorderType, canvasVars, variant, procVars,
                   reportVars, results>>

\* onChange of the yes/no radio buttons
SetHasMovementDisorder(v) ==
    /\ currentScreen = "questionnaire"
    /\ v # hasMovementDisorder
    /\ hasMovementDisorder' = v
    /\ disorderType' = IF v = "no" THEN "" ELSE disorderType
    /\ UNCHANGED <<appVars, age, canvasVars, variant, procVars, reportVars, results>>

\* onChange of the disorder radio buttons, rendered only for 'yes'
SetDisorderType(v) ==
    /\ currentScreen = "questionnaire"
    /\ hasMovementDisorder = "yes"
    /\ v # disorderType
    /\ disorderType' = v
    /\ UNCHANGED <<appVars, age, hasMovementDisorder, canvasVars, variant,
                   procVars, reportVars, results>>

IsValid ==
    /\ age # ""
    /\ hasMovementDisorder # ""
    /\ (hasMovementDisorder = "no" \/ disorderType # "")

\* Confirm button (disabled unless isValid) -> handleSubmit ->
\* handleQuestionnaireConfirm
HandleSubmit ==
    /\ currentScreen = "questionnaire"
    /\ IsValid
    /\ age # "" /\ hasMovementDisorder # ""
    /\ questionnaireData' = [age |-> age,
                             hasMovementDisorder |-> hasMovementDisorder,
                             disorderType |-> disorderType]
    /\ currentScreen' = "instruction"
    \* QuestionnaireScreen unmounts
    /\ age' = ""
    /\ hasMovementDisorder' = ""
    /\ disorderType' = ""
    /\ UNCHANGED <<drawingData, spiralParams, scoreData, canvasVars, variant,
                   procVars, reportVars, results>>

\* SpiralCanvas mounts: fresh state, then the mount effect draws the
\* reference spiral, stores its parameters and records the start time
MountCanvas ==
    /\ currentScreen' = "canvas"
    /\ isDrawing' = FALSE
    /\ points' = <<>>
    /\ spiralParamsRef' = DrawReferenceSpiral(canvasSize, canvasSize)
    /\ elapsed' = 0
    /\ UNCHANGED <<questionnaireData, drawingData, spiralParams, scoreData,
                   formVars, canvasSize, variant, procVars, reportVars, results>>

HandleInstructionSkip ==
    /\ currentScreen = "instruction"
    /\ MountCanvas

HandleInstructionContinue ==
    /\ currentScreen = "instruction"
    /\ MountCanvas

\* time passes while the canvas is shown
Tick ==
    /\ currentScreen = "canvas"
    /\ elapsed < MaxElapsed
    /\ elapsed' = elapsed + 1
    /\ UNCHANGED <<appVars, formVars, canvasSize, isDrawing, points,
                   spiralParamsRef, variant, procVars, reportVars, results>>

\* coords of a pointer event at position pos
GetCoordinates(pos) == [x |-> pos.x, y |-> pos.y, t |-> elapsed]

\* variant of StartDrawing: a new stroke is added to the trace so far
StartDrawing_KeepsTrace(pos) ==
    /\ currentScreen = "canvas"
    /\ Len(points) < MaxPoints
    /\ isDrawing' = TRUE
    /\ points' = Append(points, GetCoordinates(pos))
    /\ UNCHANGED <<appVars, formVars, canvasSize, spiralParamsRef, elapsed,
                   variant, procVars, reportVars, results>>

\* variant of StartDrawing: a new stroke also clears the stored spiral
\* parameters
StartDrawing_ClearsParams(pos) ==
    /\ currentScreen = "canvas"
    /\ isDrawing' = TRUE
    /\ points' = <<GetCoordinates(pos)>>
    /\ spiralParamsRef' = Null
    /\ UNCHANGED <<appVars, formVars, canvasSize, elapsed,
                   variant, procVars, reportVars, results>>

\* onMouseDown / onTouchStart
StartDrawing(pos) ==
    /\ currentScreen = "canvas"
    /\ isDrawing' = TRUE
    /\ points' = <<GetCoordinates(pos)>>
    /\ UNCHANGED <<appVars, formVars, canvasSize, spiralParamsRef, elapsed,
                   variant, procVars, reportVars, results>>

\* variant of Draw: a move is recorded whether or not a stroke is active
Draw_NoStrokeCheck(pos) ==
    /\ currentScreen = "canvas"
    /\ Len(points) < MaxPoints
    /\ points' = Append(points, GetCoordinates(pos))
    /\ UNCHANGED <<appVars, formVars, canvasSize, isDrawing, spiralParamsRef,
                   elapsed, variant, procVars, reportVars, results>>

\* onMouseMove / onTouchMove
Draw(pos) ==
    /\ currentScreen = "canvas"
    /\ isDrawing
    /\ Len(points) < MaxPoints
    /\ points' = Append(points, GetCoordinates(pos))
    /\ UNCHANGED <<appVars, formVars, canvasSize, isDrawing, spiralParamsRef,
                   elapsed, variant, procVars, reportVars, results>>

\* onMouseUp / onMouseLeave / onTouchEnd
StopDrawing ==
    /\ currentScreen = "canvas"
    /\ isDrawing
    /\ isDrawing' = FALSE
    /\ UNCHANGED <<appVars, formVars, canvasSize, points, spiralParamsRef,
                   elapsed, variant, procVars, reportVars, results>>

\* ids the backend may give a saved spiral (savedSpiralData.id)
SpiralIds == {1, 2}

\* a fetch of the backend variant: the endpoint, the id in its URL (0: none),
\* how it settled ("pending" until then) and the id in its response (0: none)
Fetch(endpoint, urlId) ==
    [endpoint |-> endpoint, urlId |-> urlId, outcome |-> "pending", responseId |-> 0]

\* POST /spirals/
CreateRequest == Fetch("create", 0)

\* POST /spirals/{id}/score
ScoreRequest(id) == Fetch("score", id)

\* the last fetch sent has settled
Settle(sent, outcome, responseId) ==
    [sent EXCEPT ![Len(sent)] = [@ EXCEPT !.outcome = outcome,
                                          !.responseId = responseId]]

\* the guard at the head of calculateDemoScore / sendSpiralToBackend
MissingInputs(spiralPoints, params) == Len(spiralPoints) = 0 \/ params = Null

\* ProcessingScreen mounts with the props App passes and runs its effect
MountProcessing(spiralPoints, params) ==
    IF MissingInputs(spiralPoints, params)
    THEN /\ error' = Failure("Missing patient data, spiral points, or spiral parameters")
         /\ isProcessing' = FALSE
         /\ stage' = "failed"
         /\ pendingResult' = Null
         /\ fetches' = <<>>
    ELSE /\ error' = Null
         /\ isProcessing' = TRUE
         /\ stage' = IF variant = "demo" THEN "scoreTimer" ELSE "createPending"
         /\ pendingResult' = Null
         /\ fetches' = IF variant = "demo" THEN <<>> ELSE <<CreateRequest>>

\* variant of HandleDone: Done goes through with an empty trace
HandleDone_NoEmptyCheck ==
    /\ currentScreen = "canvas"
    /\ spiralParamsRef # Null
    /\ drawingData' = points
    /\ spiralParams' = [a |-> spiralParamsRef.a, b |-> spiralParamsRef.b]
    /\ currentScreen' = "processing"
    /\ MountProcessing(points, spiralParamsRef)
    /\ isDrawing' = FALSE
    /\ points' = <<>>
    /\ spiralParamsRef' = Null
    /\ elapsed' = 0
    /\ UNCHANGED <<questionnaireData, scoreData, formVars, canvasSize, variant,
                   reportVars, results>>

\* Done button (disabled while points is empty) -> handleDone ->
\* handleCanvasComplete
HandleDone ==
    /\ currentScreen = "canvas"
    /\ Len(points) # 0
    /\ spiralParamsRef # Null
    /\ drawingData' = points
    /\ spiralParams' = [a |-> spiralParamsRef.a, b |-> spiralParamsRef.b]
    /\ currentScreen' = "processing"
    /\ MountProcessing(points, spiralParamsRef)
    \* SpiralCanvas unmounts
    /\ isDrawing' = FALSE
    /\ points' = <<>>
    /\ spiralParamsRef' = Null
    /\ elapsed' = 0
    /\ UNCHANGED <<questionnaireData, scoreData, formVars, canvasSize, variant,
                   reportVars, results>>

\* the 2000 ms timer of calculateDemoScore fires
DemoScoreTimer ==
    /\ stage = "scoreTimer"
    /\ \E f \in {DemoFeatures(drawingData, spiralParams)} :
          \E random \in RandomDraws :
              pendingResult' = ScoredResult(questionnaireData, f, random)
    /\ isProcessing' = FALSE
    /\ stage' = "completeTimer"
    /\ UNCHANGED <<appVars, formVars, canvasVars, variant, error, fetches,
                   reportVars, results>>

\* outcomes of a fetch: a response that is ok, one that is not, or a throw
FetchOutcomes == {"ok", "notOk", "throws"}

\* variant of CreateResponse: a failed create sets the error without
\* throwing, so the run goes on to the score request
CreateResponse_NoThrow(outcome, id) ==
    /\ stage = "createPending"
    /\ stage' = "scorePending"
    /\ IF outcome = "ok"
       THEN /\ fetches' = Append(Settle(fetches, "ok", id), ScoreRequest(id))
            /\ UNCHANGED <<error, isProcessing>>
       ELSE /\ fetches' = Append(Settle(fetches, outcome, 0), ScoreRequest(0))
            /\ error' = Failure("Backend error (create spiral)")
            /\ isProcessing' = FALSE
    /\ UNCHANGED <<appVars, formVars, canvasVars, variant, pendingResult,
                   reportVars, results>>

\* variant of CreateResponse: the score request is sent for spiral 1
\* whatever id the create response carries
CreateResponse_FixedId(outcome, id) ==
    /\ stage = "createPending"
    /\ IF outcome = "ok"
       THEN /\ stage' = "scorePending"
            /\ fetches' = Append(Settle(fetches, "ok", id), ScoreRequest(1))
            /\ UNCHANGED <<error, isProcessing>>
       ELSE /\ error' = Failure(IF outcome = "notOk" THEN "Backend error (create spiral)"
                                                     ELSE "Failed to process spiral")
            /\ isProcessing' = FALSE
            /\ stage' = "failed"
            /\ fetches' = Settle(fetches, outcome, 0)
    /\ UNCHANGED <<appVars, formVars, canvasVars, variant, pendingResult,
                   reportVars, results>>

\* POST /spirals/ settles: with an ok response carrying the id of the saved
\* spiral, after which the score request for that id is sent, or not
CreateResponse(outcome, id) ==
    /\ stage = "createPending"
    /\ IF outcome = "ok"
       THEN /\ stage' = "scorePending"
            /\ fetches' = Append(Settle(fetches, "ok", id), ScoreRequest(id))
            /\ UNCHANGED <<error, isProcessing>>
       ELSE /\ error' = Failure(IF outcome = "notOk" THEN "Backend error (create spiral)"
                                                     ELSE "Failed to process spiral")
            /\ isProcessing' = FALSE
            /\ stage' = "failed"
            /\ fetches' = Settle(fetches, outcome, 0)
    /\ UNCHANGED <<appVars, formVars, canvasVars, variant, pendingResult,
                   reportVars, results>>

\* severity_score values the backend's JSON response may carry, in 1/1000
BackendScores == {-500, 0, 299, 300, 999, 1000, 1999, 2000, 3000, 3500}

\* the classification field of the backend's response: the scoring service's
\* own thresholds
BackendClassification(score) ==
    IF score < 300 THEN "Normal"
    ELSE IF score < 1000 THEN "Mild"
    ELSE IF score < 2000 THEN "Moderate"
    ELSE "Severe"

BackendResult(score) ==
    [severity_score |-> score,
     classification |-> BackendClassification(score),
     features |-> [metrics |-> Null]]

\* POST /spirals/{id}/score settles
ScoreResponse(outcome, score) ==
    /\ stage = "scorePending"
    /\ fetches' = Settle(fetches, outcome, 0)
    /\ IF outcome = "ok"
       THEN /\ pendingResult' = BackendResult(score)
            /\ isProcessing' = FALSE
            /\ stage' = "completeTimer"
            /\ UNCHANGED error
       ELSE /\ error' = Failure(IF outcome = "notOk" THEN "Backend error (score spiral)"
                                                     ELSE "Failed to process spiral")
            /\ isProcessing' = FALSE
            /\ stage' = "failed"
            /\ UNCHANGED pendingResult
    /\ UNCHANGED <<appVars, formVars, canvasVars, variant, reportVars, results>>

\* variant of OnCompleteTimer: the timer repeats (an interval), so it is
\* still pending after the callback ran
OnCompleteTimer_Repeats ==
    /\ stage = "completeTimer"
    /\ scoreData' = pendingResult
    /\ currentScreen' = "report"
    /\ severity' = GetSeverityClassification(pendingResult.severity_score)
    /\ reportMetrics' = ReportMetrics(drawingData)
    /\ UNCHANGED <<questionnaireData, drawingData, spiralParams, formVars,
                   canvasVars, variant, procVars, results>>

\* the timer set after a successful run fires: onComplete(scoredResult) ->
\* handleProcessingComplete; ReportScreen renders and classifies the score
OnCompleteTimer ==
    /\ stage = "completeTimer"
    /\ scoreData' = pendingResult
    /\ currentScreen' = "report"
    /\ severity' = GetSeverityClassification(pendingResult.severity_score)
    /\ reportMetrics' = ReportMetrics(drawingData)
    \* ProcessingScreen unmounts
    /\ error' = Null
    /\ isProcessing' = TRUE
    /\ stage' = "unmounted"
    /\ pendingResult' = Null
    /\ fetches' = <<>>
    /\ UNCHANGED <<questionnaireData, drawingData, spiralParams, formVars,
                   canvasVars, variant, results>>

\* variant of HandleReturnHome: the trace is kept
HandleReturnHome_KeepsDrawing ==
    /\ currentScreen = "report"
    /\ questionnaireData' = EmptyQuestionnaire
    /\ spiralParams' = Null
    /\ scoreData' = Null
    /\ currentScreen' = "home"
    /\ severity' = ""
    /\ reportMetrics' = Null
    /\ UNCHANGED <<drawingData, formVars, canvasVars, variant, procVars, results>>

HandleReturnHome ==
    /\ currentScreen = "report"
    /\ questionnaireData' = EmptyQuestionnaire
    /\ drawingData' = <<>>
    /\ spiralParams' = Null
    /\ scoreData' = Null
    /\ currentScreen' = "home"
    \* ReportScreen unmounts
    /\ severity' = ""
    /\ reportMetrics' = Null
    /\ UNCHANGED <<formVars, canvasVars, variant, procVars, results>>

Next ==
    \/ HandleStart
    \/ \E v \in AgeValues : SetAge(v)
    \/ \E v \in {"yes", "no"} : SetHasMovementDisorder(v)
    \/ \E v \in DisorderTypes : SetDisorderType(v)
    \/ HandleSubmit
    \/ HandleInstructionSkip
    \/ HandleInstructionContinue
    \/ Tick
    \/ \E pos \in PointerPositions : StartDrawing(pos)
    \/ \E pos \in PointerPositions : Draw(pos)
    \/ StopDrawing
    \/ HandleDone
    \/ DemoScoreTimer
    \/ \E outcome \in FetchOutcomes, id \in SpiralIds : CreateResponse(outcome, id)
    \/ \E outcome \in FetchOutcomes, score \in BackendScores : ScoreResponse(outcome, score)
    \/ OnCompleteTimer
    \/ HandleReturnHome

Spec == Init /\ [][Next]_vars


----------------------------------------------------------------------------
(* ScorerSpec: the demo scorer run repeatedly on the same props.           *)
(* ProcessingScreen is mounted with a synthetic trace, the parameters of   *)
(* the reference spiral of a canvas and a questionnaire record; each run   *)
(* draws its own Math.random().                                            *)

\* a trace of n samples 16 ms apart: "tail" holds p for the first n-1
\* samples and q for the last, "alternate" goes back and forth between them
SyntheticTrace(n, p, q, mode) ==
    [i \in 1..n |->
        LET at == IF mode = "tail" THEN (IF i < n THEN p ELSE q)
                  ELSE (IF i % 2 = 1 THEN p ELSE q)
        IN  [x |-> at.x, y |-> at.y, t |-> 16 * i]]

\* short traces of both shapes, and long ones from the deviation loop's cap on
ScorerTraces ==
    {SyntheticTrace(n, p, q, mode) :
        n \in 1..MaxShortLen, p \in PointerPositions, q \in PointerPositions,
        mode \in {"tail", "alternate"}}
    \cup {SyntheticTrace(n, p, q, "tail") :
        n \in DeviationCap..MaxLongLen, p \in PointerPositions, q \in PointerPositions}

\* the point drawReferenceSpiral's loop reaches at k quarter turns
\* (angle = k pi/2, radius = a + b angle = maxRadius k / (4 turns)), where
\* cos and sin are 0, 1 or -1
ReferenceSpiralPoint(size, k) ==
    LET radius == (((size * 35) \div 100) * k) \div (4 * Turns)
        cos == CASE k % 4 = 0 -> 1 [] k % 4 = 2 -> -1 [] OTHER -> 0
        sin == CASE k % 4 = 1 -> 1 [] k % 4 = 3 -> -1 [] OTHER -> 0
    IN  Pt(CenterX(size) + radius * cos, CenterY(size) + radius * sin)

\* a trace of n samples 16 ms apart that follows the reference spiral from
\* its center outwards, a quarter turn per sample
OnSpiralTrace(size, n) ==
    [i \in 1..n |->
        LET at == ReferenceSpiralPoint(size, i - 1)
        IN  [x |-> at.x, y |-> at.y, t |-> 16 * i]]

\* the on-spiral traces of a canvas, from one sample to all of the turns;
\* none for a canvas on which the quarter-turn points are not whole pixels
OnSpiralTraces(size) ==
    IF (size * 35) % (100 * 4 * Turns) = 0
    THEN {OnSpiralTrace(size, n) : n \in 1..(4 * Turns + 1)}
    ELSE {}

ScorerInit ==
    /\ currentScreen = "processing"
    /\ questionnaireData \in
          {[age |-> "45", hasMovementDisorder |-> "no", disorderType |-> ""],
           [age |-> "45", hasMovementDisorder |-> "yes",
            disorderType |-> "Essential Tremor"]}
    /\ canvasSize \in CanvasSizes
    /\ drawingData \in ScorerTraces \cup OnSpiralTraces(canvasSize)
    /\ spiralParams = DrawReferenceSpiral(canvasSize, canvasSize)
    /\ scoreData = Null
    /\ age = ""
    /\ hasMovementDisorder = ""
    /\ disorderType = ""
    /\ isDrawing = FALSE
    /\ points = <<>>
    /\ spiralParamsRef = Null
    /\ elapsed = 0
    /\ variant = "demo"
    /\ error = Null
    /\ isProcessing = TRUE
    /\ stage = "scoreTimer"
    /\ pendingResult = Null
    /\ fetches = <<>>
    /\ severity = ""
    /\ reportMetrics = Null
    /\ results = <<>>

\* one more run of calculateDemoScore's timer callback on the same props;
\* two runs are what a comparison of runs needs
ScoreRun ==
    /\ Len(results) < 2
    /\ \E f \in {DemoFeatures(drawingData, spiralParams)} :
          \E random \in RandomDraws :
              results' = Append(results, ScoredResult(questionnaireData, f, random))
    /\ UNCHANGED <<appVars, formVars, canvasVars, variant, procVars, reportVars>>

ScorerNext == ScoreRun

ScorerSpec == ScorerInit /\ [][ScorerNext]_vars


----------------------------------------------------------------------------
(* RuleSpec: the scoring arithmetic of calculateDemoScore (from the        *)
(* normalisation of the two features to the clamp) applied to two runs     *)
(* whose patient information and feature values are drawn independently;   *)
(* each run draws its own Math.random().                                   *)

\* patientInfo props: both answers, two ages
PatientInfos ==
    {[age |-> a, hasMovementDisorder |-> "no", disorderType |-> ""] :
        a \in {"45", "70"}}
    \cup {[age |-> a, hasMovementDisorder |-> "yes", disorderType |-> d] :
        a \in {"45", "70"}, d \in DisorderTypes}

\* values of the metrics of a trace: avgVariation below and above the cap
\* of its score (20 px), deviation from 0 to above the cap of its score
\* (100 px)
FeatureVectors ==
    {[totalPoints |-> 50, totalTime |-> 800, avgVariation |-> v,
      avgDistance |-> 300, deviation |-> d] :
        v \in {0, 2500}, d \in {0, 2500, 6000, 12000}}

\* what console.log('Demo scoring result:', scoredResult) writes
DemoLogEntry(scoredResult) ==
    [level |-> "log", message |-> "Demo scoring result:", payload |-> scoredResult]

\* a run not yet scored
PendingRun(info, f) ==
    [patientInfo |-> info, features |-> f, random |-> Null, scored |-> Null,
     logged |-> Null]

RuleInit ==
    /\ currentScreen = "processing"
    /\ results \in [1..2 -> {PendingRun(info, f) :
                                info \in PatientInfos, f \in FeatureVectors}]
    /\ questionnaireData = EmptyQuestionnaire
    /\ drawingData = <<>>
    /\ canvasSize \in {240}
    /\ spiralParams = DrawReferenceSpiral(canvasSize, canvasSize)
    /\ scoreData = Null
    /\ age = ""
    /\ hasMovementDisorder = ""
    /\ disorderType = ""
    /\ isDrawing = FALSE
    /\ points = <<>>
    /\ spiralParamsRef = Null
    /\ elapsed = 0
    /\ variant = "demo"
    /\ error = Null
    /\ isProcessing = TRUE
    /\ stage = "scoreTimer"
    /\ pendingResult = Null
    /\ fetches = <<>>
    /\ severity = ""
    /\ reportMetrics = Null

\* run k computes its score, builds scoredResult and logs it
ScoreFeatures(k) ==
    /\ results[k].scored = Null
    /\ \E random \in RandomDraws :
          \E scoredResult \in {ScoredResult(results[k].patientInfo,
                                            results[k].features, random)} :
              results' = [results EXCEPT ![k] =
                  [@ EXCEPT !.random = random,
                            !.scored = scoredResult,
                            !.logged = DemoLogEntry(scoredResult)]]
    /\ UNCHANGED <<appVars, formVars, canvasVars, variant, procVars, reportVars>>

RuleNext == \E k \in 1..2 : ScoreFeatures(k)

RuleSpec == RuleInit /\ [][RuleNext]_vars


----------------------------------------------------------------------------
(* Claims C1 - C10 *)

\* the ScoreResult the report shows
Shown == scoreData.severity_score

C2_SameScore ==
    \A i, j \in 1..Len(results) :
        results[i].severity_score = results[j].severity_score

\* C2 as amended: the severity scores of runs on the same inputs differ by
\* less than 0.4 (each run adds its own random factor in [-0.2, 0.2) before
\* clamping).
C2_ScoresWithinBand ==
    \A i, j \in 1..Len(results) :
        Abs(results[i].severity_score - results[j].severity_score) < 400

\* two runs on the same inputs whose scores differ
C2_Witness ==
    /\ Len(results) = 2
    /\ results[1].severity_score # results[2].severity_score

\* C3 as claimed: every severity_score shown on the report lies in [0, 3],
\* whichever ProcessingScreen variant produced it.
C3_EveryShownScoreInRange ==
    currentScreen = "report" => (0 <= Shown /\ Shown <= 3000)

\* C3 as amended: every severity_score the demo scorer produces (pending
\* delivery or shown on the report) lies in [0, 3].
C3_DemoScoreInRange ==
    variant = "demo" =>
        /\ pendingResult # Null =>
              (0 <= pendingResult.severity_score /\ pendingResult.severity_score <= 3000)
        /\ scoreData # Null => (0 <= Shown /\ Shown <= 3000)

\* the demo scorer's report of a score clamped to 0: a one-point trace near
\* the origin, no movement disorder
C3_Witness ==
    /\ variant = "demo"
    /\ currentScreen = "report"
    /\ Shown = 0
    /\ Len(drawingData) = 1
    /\ questionnaireData.hasMovementDisorder = "no"

\* the points the Trace Cleaner keeps: the first, and each point whose t
\* exceeds the last kept point's t and that is not coincident with it
RECURSIVE KeptFrom(_, _, _)
KeptFrom(pts, i, last) ==
    IF i > Len(pts) THEN 0
    ELSE IF pts[i].t > last.t /\ (pts[i].x # last.x \/ pts[i].y # last.y)
         THEN 1 + KeptFrom(pts, i + 1, pts[i])
         ELSE KeptFrom(pts, i + 1, last)

UsablePoints(pts) == IF Len(pts) = 0 THEN 0 ELSE 1 + KeptFrom(pts, 2, pts[1])

\* C4: a trace with fewer than 2 usable points never yields a score: no
\* ScoreResult is produced for it or delivered to the completion callback.
C4_NoScoreBelowTwoPoints ==
    (pendingResult # Null \/ scoreData # Null) => UsablePoints(drawingData) >= 2

\* C5: whenever a scoring run ended in an error, no ScoreResult is delivered:
\* no onComplete timer is pending, none has fired (the processing screen is
\* still shown) and App.scoreData is unchanged (null, as on entry).
C5_AllOrNothing ==
    error # Null =>
        /\ stage = "failed"
        /\ pendingResult = Null
        /\ scoreData = Null
        /\ currentScreen = "processing"

\* a run that failed after its create request had succeeded
C5_Witness == error = Failure("Backend error (score spiral)") /\ stage = "failed"

\* C6: a failed scoring call does not block the application: in the state in
\* which the processing screen shows an error some handler can still run.
C6_FailedRunNotStuck == error # Null => ENABLED Next

\* C7: the point sequence from which metrics and the score are computed has
\* strictly increasing t and no two consecutive identical points.
C7_ScoredTraceIsCleaned ==
    (pendingResult # Null \/ scoreData # Null) =>
        \A i \in 2..Len(drawingData) :
            /\ drawingData[i].t > drawingData[i - 1].t
            /\ drawingData[i] # drawingData[i - 1]

\* C8: the points the canvas passes to onComplete have non-decreasing t and
\* the first of them has t = 0.
C8_RawStreamStartsAtZero ==
    drawingData # <<>> =>
        /\ drawingData[1].t = 0
        /\ \A i \in 2..Len(drawingData) : drawingData[i].t >= drawingData[i - 1].t

\* C9: 'Spiral deviation' is the mean of |actual radius - (a + b theta)| over
\* all points of the trace, the divisor being the number of points.
C9_MeanOverAllPoints ==
    \A k \in 1..Len(results) :
        results[k].features.metrics.spiralDeviation =
            ToFixed2(DeviationSum(drawingData, spiralParams, 1, Len(drawingData))
                     \div Len(drawingData))

\* |radius - (a + b theta)| of a point, radius and angle measured from the
\* center of the reference spiral on the canvas
CenterDeviation(point, params, centerX, centerY) ==
    LET dx == point.x - centerX
        dy == point.y - centerY
    IN  Abs(Hypot(dx, dy) - (params.a * 100 + (params.b * Atan2(dy, dx)) \div 10000))

RECURSIVE CenterDeviationSum(_, _, _, _)
CenterDeviationSum(pts, params, lo, hi) ==
    IF lo > hi THEN 0
    ELSE IF lo = hi
         THEN CenterDeviation(pts[lo], params, CenterX(canvasSize), CenterY(canvasSize))
    ELSE LET mid == (lo + hi) \div 2
         IN  CenterDeviationSum(pts, params, lo, mid)
             + CenterDeviationSum(pts, params, mid + 1, hi)

\* C10: the radius and angle of each point in the deviation computation are
\* measured from the reference spiral's center (dx = x - centerX,
\* dy = y - centerY), so the reported deviation is the one computed there.
C10_RelativeToSpiralCenter ==
    \A k \in 1..Len(results) :
        results[k].features.metrics.spiralDeviation =
            ToFixed2(CenterDeviationSum(drawingData, spiralParams, 1,
                                        DeviationCount(drawingData))
                     \div DeviationCount(drawingData))

----------------------------------------------------------------------------
(* Claims C11 - C20 *)

\* the scored trace follows the reference spiral of the canvas in one
\* direction, from the center outwards
FollowsReferenceSpiral == drawingData \in OnSpiralTraces(canvasSize)

\* C11: the theta used for the ideal radius a + b theta is the unwrapped
\* cumulative angle: there is exactly one theta per input point, and over a
\* trace drawn in one direction along the spiral theta keeps increasing
\* (it never drops back when the raw angle wraps).
C11_ThetaUnwrapped ==
    results # <<>> =>
        LET theta == Thetas(drawingData, spiralParams)
        IN  /\ Len(theta) = Len(drawingData)
            /\ FollowsReferenceSpiral =>
                  \A i \in 2..Len(theta) : theta[i] > theta[i - 1]

\* C12: for a trace whose points lie exactly on the reference spiral drawn
\* by the canvas (radius a + b theta around the canvas center, over all
\* turns) the computed 'Spiral deviation' is 0.
C12_ZeroOnReferenceSpiral ==
    FollowsReferenceSpiral =>
        \A k \in 1..Len(results) :
            results[k].features.metrics.spiralDeviation = ToFixed2(0)

\* d_1 .. d_(n-1): the distances between consecutive points of a trace
ConsecutiveDistances(pts) ==
    [i \in 1..(Len(pts) - 1) |->
        Hypot(pts[i + 1].x - pts[i].x, pts[i + 1].y - pts[i].y)]

\* the sum of |d_i - d_(i-1)| for i in lo..hi
RECURSIVE SumOfChanges(_, _, _)
SumOfChanges(d, lo, hi) ==
    IF lo > hi THEN 0
    ELSE IF lo = hi THEN Abs(d[lo] - d[lo - 1])
    ELSE LET mid == (lo + hi) \div 2
         IN  SumOfChanges(d, lo, mid) + SumOfChanges(d, mid + 1, hi)

\* C13: for a trace of n >= 3 points with consecutive distances
\* d_1 .. d_(n-1) the reported 'Average variation' is
\* (sum over i = 2 .. n-1 of |d_i - d_(i-1)|) / (n - 2).
C13_MeanAbsoluteChange ==
    \A k \in 1..Len(results) :
        Len(drawingData) >= 3 =>
            results[k].features.metrics.averageVariation =
                ToFixed2(SumOfChanges(ConsecutiveDistances(drawingData), 2,
                                      Len(drawingData) - 1)
                         \div (Len(drawingData) - 2))

\* a scored trace of at least 4 points whose consecutive distances change
C13_Witness ==
    /\ results # <<>>
    /\ Len(drawingData) >= 4
    /\ results[1].features.metrics.averageVariation # ToFixed2(0)

\* t of the last point of the trace the report is about
LastT == drawingData[Len(drawingData)].t

\* a printed two-decimal number, in 1/100
Hundredths(printed) == printed.int * 100 + printed.frac

\* C14 as claimed: the reported duration is the t of the last point and the
\* reported mean speed is the path length divided by the duration (pixels
\* per second or pixels per millisecond, to two decimals).
C14_PathLengthOverDuration ==
    (currentScreen = "report" /\ LastT > 0) =>
        LET pathLength == TotalDistance(drawingData, 2, Len(drawingData))
        IN  /\ reportMetrics.totalTime = LastT
            /\ reportMetrics.avgSpeed.finite
            /\ \/ Hundredths(reportMetrics.avgSpeed.value)
                     = (2 * pathLength * 1000 + LastT) \div (2 * LastT)
               \/ Hundredths(reportMetrics.avgSpeed.value)
                     = (2 * pathLength + LastT) \div (2 * LastT)

\* C14 as amended: the reported duration is the t of the last point (shown
\* in seconds to one decimal) and, when it is positive, the reported
\* 'Average Speed' is the number of points divided by the duration in
\* seconds, to the nearest hundredth.
C14_PointsPerSecond ==
    (currentScreen = "report" /\ LastT > 0) =>
        /\ reportMetrics.totalTime = LastT
        /\ 2 * Abs(reportMetrics.totalTimeShown * 100 - LastT) <= 100
        /\ reportMetrics.avgSpeed.finite
        /\ 2 * Abs(Hundredths(reportMetrics.avgSpeed.value) * LastT
                   - Len(drawingData) * 100000) <= LastT

\* a report on 3 points drawn in 2 ms: 1500.00 points per second
C14_Witness ==
    /\ currentScreen = "report"
    /\ Len(drawingData) = 3
    /\ LastT = 2
    /\ reportMetrics.avgSpeed = Finite(ToFixed2(150000))

\* C15: no reported metric is non-finite: for a trace whose metrics would
\* be non-finite (a last t of zero) no result is produced or shown, the
\* run fails with an error instead.
C15_NoNonFiniteMetric ==
    /\ currentScreen = "report" => reportMetrics.avgSpeed.finite
    /\ (drawingData # <<>> /\ LastT = 0) =>
          (pendingResult = Null /\ scoreData = Null)

\* C17: the classification field of every ScoreResult delivered to the
\* report is one of Normal, Mild, Moderate, Severe.
C17_ClassificationIsSeverityLabel ==
    scoreData # Null =>
        scoreData.classification \in {"Normal", "Mild", "Moderate", "Severe"}

\* runs i and j of RuleSpec are both scored
BothScored(i, j) == results[i].scored # Null /\ results[j].scored # Null

\* runs i and j have the same questionnaire answers and the same features
\* other than the deviation
SameButDeviation(i, j) ==
    /\ results[i].patientInfo = results[j].patientInfo
    /\ [results[i].features EXCEPT !.deviation = 0]
         = [results[j].features EXCEPT !.deviation = 0]

\* C16 as claimed: for two scoring runs whose other features are equal, the
\* run with the larger radial deviation never receives a lower severity
\* score.
C16_MonotonicInDeviation ==
    \A i, j \in 1..2 :
        (/\ BothScored(i, j)
         /\ SameButDeviation(i, j)
         /\ results[i].features.deviation >= results[j].features.deviation)
        => results[i].scored.severity_score >= results[j].scored.severity_score

\* C16 as amended: for two scoring runs whose other features and
\* questionnaire answers are equal, the run with the larger radial deviation
\* never receives a lower severity score when both runs draw the same random
\* number, and a score lower by less than 0.4 otherwise.
C16_MonotonicUpToRandomFactor ==
    \A i, j \in 1..2 :
        (/\ BothScored(i, j)
         /\ SameButDeviation(i, j)
         /\ results[i].features.deviation >= results[j].features.deviation)
        => /\ results[i].random = results[j].random =>
                results[i].scored.severity_score >= results[j].scored.severity_score
           /\ results[i].scored.severity_score
                > results[j].scored.severity_score - 400

\* two runs that differ in the deviation only, the first with the larger
\* deviation and the higher score
C16_Witness ==
    /\ BothScored(1, 2)
    /\ SameButDeviation(1, 2)
    /\ results[1].random = results[2].random
    /\ results[1].features.deviation > results[2].features.deviation
    /\ results[1].scored.severity_score > results[2].scored.severity_score

\* runs i and j have the same features and drew the same random number
SameTraceAndDraw(i, j) ==
    /\ results[i].features = results[j].features
    /\ results[i].random = results[j].random

\* sum of w z over sum of |w| for the two normalised features (in 1/1000),
\* each capped at 2.0, with equal weights
EqualWeightMean(f) ==
    (1 * Min((f.avgVariation * 10) \div 10, 2000)
     + 1 * Min((f.deviation * 10) \div 50, 2000)) \div (1 + 1)

\* C18 as claimed: the score is determined solely by the normalised features
\* and the weights: two runs on the same trace that differ only in the
\* questionnaire answers yield the same score.
C18_QuestionnaireIndependent ==
    \A i, j \in 1..2 :
        (BothScored(i, j) /\ SameTraceAndDraw(i, j))
        => results[i].scored.severity_score = results[j].scored.severity_score

\* C18 as amended: the score is the equal-weight mean of the two normalised
\* features, plus 0.3 when hasMovementDisorder is 'yes', plus the run's
\* random factor, clamped to [0, 3]; two runs on the same trace with the
\* same random draw yield the same score when they differ only in age or
\* disorder type, and the 'yes' run scores higher by at most 0.3 otherwise.
C18_MeanPlusDisorderBonus ==
    /\ \A k \in 1..2 :
          results[k].scored # Null =>
              results[k].scored.severity_score =
                  Max(0, Min(3000,
                      EqualWeightMean(results[k].features)
                      + (IF results[k].patientInfo.hasMovementDisorder = "yes"
                         THEN 300 ELSE 0)
                      + ((results[k].random - 500) * 4) \div 10))
    /\ \A i, j \in 1..2 :
          (BothScored(i, j) /\ SameTraceAndDraw(i, j)) =>
              /\ results[i].patientInfo.hasMovementDisorder
                   = results[j].patientInfo.hasMovementDisorder
                 => results[i].scored.severity_score = results[j].scored.severity_score
              /\ (/\ results[i].patientInfo.hasMovementDisorder = "yes"
                  /\ results[j].patientInfo.hasMovementDisorder = "no")
                 => /\ results[i].scored.severity_score
                         >= results[j].scored.severity_score
                    /\ results[i].scored.severity_score
                         <= results[j].scored.severity_score + 300

\* two runs on the same features with the same draw, one answering 'yes'
\* and one 'no', whose scores differ by 0.3; and their ages differ too
C18_Witness ==
    /\ BothScored(1, 2)
    /\ SameTraceAndDraw(1, 2)
    /\ results[1].patientInfo.hasMovementDisorder = "yes"
    /\ results[2].patientInfo.hasMovementDisorder = "no"
    /\ results[1].patientInfo.age # results[2].patientInfo.age
    /\ results[1].scored.severity_score = results[2].scored.severity_score + 300

C20_ParamsFixedAtMount ==
    [][/\ (currentScreen = "canvas" /\ currentScreen' = "canvas")
          => spiralParamsRef' = spiralParamsRef
       /\ (currentScreen = "canvas" /\ currentScreen' = "processing")
          => spiralParams' = spiralParamsRef
       /\ (currentScreen # "canvas" /\ currentScreen' = "canvas")
          => spiralParamsRef' = DrawReferenceSpiral(canvasSize, canvasSize)]_vars

\* Done pressed after a stroke of two or more points on the 240 px canvas:
\* App holds the parameters of that canvas's reference spiral
C20_Witness ==
    /\ currentScreen = "processing"
    /\ Len(drawingData) >= 2
    /\ canvasSize = 240
    /\ spiralParams = DrawReferenceSpiral(240, 240)

----------------------------------------------------------------------------
(* Claims C21 - C30 *)

\* adjustedScore + randomFactor of run k of RuleSpec, before the clamp
Unclamped(k) ==
    AdjustedScore(results[k].patientInfo, results[k].features.avgVariation,
                  results[k].features.deviation)
    + RandomFactor(results[k].random)

\* C21: clamping is never silent: whenever the unclamped score falls
\* outside [0, 3] and is clamped, the run records an observable warning
\* that clamping occurred, as a log entry of its own or as an annotation on
\* the result.
C21_ClampingIsReported ==
    \A k \in 1..2 :
        (results[k].scored # Null /\ (Unclamped(k) < 0 \/ Unclamped(k) > 3000))
        => \/ results[k].logged.level = "warn"
           \/ results[k].logged.message # "Demo scoring result:"
           \/ DOMAIN results[k].scored
                # {"severity_score", "classification", "features"}

\* both requests of the backend variant were sent and answered ok
BothResponsesOk ==
    /\ Len(fetches) = 2
    /\ fetches[1].outcome = "ok"
    /\ fetches[2].outcome = "ok"

\* the completion callback is invoked in this step: App takes over a result
OnCompleteInvoked == scoreData' # scoreData /\ scoreData' # Null

\* C22: in the backend-backed ProcessingScreen the score request is sent
\* only after the create request returned ok and carries the id of that
\* response; onComplete is pending or called only after both responses were
\* ok; once a request throws or is not ok, error is set, it stays the last
\* request sent and onComplete is not pending.
C22_RequestOrder ==
    /\ [](variant = "backend" =>
            /\ Len(fetches) <= 2
            /\ Len(fetches) >= 1 => fetches[1].endpoint = "create"
            /\ Len(fetches) = 2 =>
                  /\ fetches[1].outcome = "ok"
                  /\ fetches[2].endpoint = "score"
                  /\ fetches[2].urlId = fetches[1].responseId
            /\ stage = "completeTimer" => BothResponsesOk
            /\ \A k \in 1..Len(fetches) :
                  fetches[k].outcome \in {"notOk", "throws"} =>
                      /\ k = Len(fetches)
                      /\ error # Null
                      /\ stage = "failed"
                      /\ pendingResult = Null)
    /\ [][(variant = "backend" /\ OnCompleteInvoked) => BothResponsesOk]_vars

\* the score request for spiral 2 failed after the create request had
\* returned ok with id 2
C22_Witness ==
    /\ variant = "backend"
    /\ Len(fetches) = 2
    /\ fetches[1].responseId = 2
    /\ fetches[2].urlId = 2
    /\ fetches[2].outcome = "notOk"
    /\ error # Null

\* C23: in every reachable state of App the data the current screen needs
\* is present (its render guard is true): on 'processing' drawingData is
\* non-empty and spiralParams non-null, on 'report' drawingData is non-empty
\* and scoreData non-null.
C23_ScreenDataPresent ==
    /\ currentScreen = "processing" =>
          (Len(drawingData) > 0 /\ spiralParams # Null)
    /\ currentScreen = "report" =>
          (Len(drawingData) > 0 /\ scoreData # Null)

\* the report of a backend run on a one-point trace
C23_Witness ==
    /\ currentScreen = "report"
    /\ variant = "backend"
    /\ Len(drawingData) = 1
    /\ scoreData.severity_score = 1999

\* C24: for each entry into the processing screen the completion callback is
\* invoked at most once: it is invoked only by the one pending timer of the
\* run, while the current screen is still 'processing', with the result
\* computed from the drawingData of that session, and no timer is left
\* pending once the app has left the processing screen.
C24_CompletedOncePerEntry ==
    /\ [](stage = "completeTimer" =>
            /\ currentScreen = "processing"
            /\ pendingResult # Null
            /\ variant = "demo" =>
                  /\ pendingResult.features.metrics.totalPoints = Len(drawingData)
                  /\ pendingResult.features.metrics.totalTime = LastT)
    /\ [](currentScreen # "processing" => stage = "unmounted")
    /\ [][OnCompleteInvoked =>
             /\ currentScreen = "processing"
             /\ stage = "completeTimer"
             /\ scoreData' = pendingResult
             /\ stage' = "unmounted"]_vars

\* the report of a demo run on a three-point trace, no timer pending
C24_Witness ==
    /\ currentScreen = "report"
    /\ variant = "demo"
    /\ stage = "unmounted"
    /\ scoreData.features.metrics.totalPoints = 3

\* the order of the screens within a session
ScreenOrder ==
    {<<"home", "questionnaire">>, <<"questionnaire", "instruction">>,
     <<"instruction", "canvas">>, <<"canvas", "processing">>,
     <<"processing", "report">>, <<"report", "home">>}

\* C25: the current screen changes only along home -> questionnaire ->
\* instruction -> canvas -> processing -> report -> home, so whenever the
\* report is shown, the questionnaire was confirmed, a trace was handed
\* over on Done and the processing completed with a result, in this session.
C25_ScreenOrder ==
    /\ [][currentScreen' # currentScreen
             => <<currentScreen, currentScreen'>> \in ScreenOrder]_vars
    /\ [](currentScreen = "report" =>
            /\ questionnaireData.age # ""
            /\ Len(drawingData) > 0
            /\ scoreData # Null)

\* the report of a session in which a movement disorder was declared and
\* two points were drawn
C25_Witness ==
    /\ currentScreen = "report"
    /\ questionnaireData.hasMovementDisorder = "yes"
    /\ Len(drawingData) = 2

\* C26: Return Home resets the whole session: whenever the home screen is
\* shown, and so right after Return Home, questionnaireData has all fields
\* empty, drawingData is empty, spiralParams is null and scoreData is null.
C26_HomeIsClean ==
    [](currentScreen = "home" =>
          /\ questionnaireData.age = ""
          /\ questionnaireData.hasMovementDisorder = ""
          /\ questionnaireData.disorderType = ""
          /\ Len(drawingData) = 0
          /\ spiralParams = Null
          /\ scoreData = Null)
    /\ [][(currentScreen = "report" /\ currentScreen' = "home") =>
             /\ questionnaireData' # questionnaireData
             /\ drawingData' = <<>>
             /\ spiralParams' = Null
             /\ scoreData' = Null]_vars

\* a report holding the data of a whole session (questionnaire with a
\* disorder type, three points, a score), on which Return Home can be pressed
C26_Witness ==
    /\ currentScreen = "report"
    /\ questionnaireData.disorderType # ""
    /\ Len(drawingData) = 3
    /\ scoreData # Null
    /\ ENABLED HandleReturnHome

\* a step taken while the canvas stays mounted
OnCanvas == currentScreen = "canvas" /\ currentScreen' = "canvas"

\* C27: starting a new stroke discards the trace so far: right after a
\* stroke starts the points list holds exactly the point of that event;
\* otherwise the list only grows by one point at its end; and the trace
\* handed over on Done is the points list, hence the samples of the last
\* stroke only.
C27_NewStrokeDiscardsTrace ==
    [][/\ (OnCanvas /\ ~isDrawing /\ isDrawing') =>
            /\ Len(points') = 1
            /\ points'[1].t = elapsed
       /\ (OnCanvas /\ points' # points /\ Len(points') # 1) =>
            /\ isDrawing
            /\ Len(points') = Len(points) + 1
            /\ SubSeq(points', 1, Len(points)) = points
       /\ (currentScreen = "canvas" /\ currentScreen' = "processing") =>
            drawingData' = points]_vars

\* a finished stroke of two points on the canvas, at which a new stroke can
\* be started
C27_Witness ==
    /\ currentScreen = "canvas"
    /\ ~isDrawing
    /\ Len(points) = 2
    /\ ENABLED StartDrawing(Pt(3, 4))

\* C28: points are recorded only during a stroke: while no stroke is active
\* (no start event yet, or a stop event since the last one) the points list
\* changes only by a start event, which begins a stroke; a move event then
\* leaves it unchanged.
C28_RecordedOnlyDuringStroke ==
    [][(OnCanvas /\ ~isDrawing /\ points' # points) =>
            (isDrawing' /\ Len(points') = 1)]_vars

\* a stroke of two points stopped at t = 0, 2 ms ago
C28_Witness ==
    /\ currentScreen = "canvas"
    /\ ~isDrawing
    /\ Len(points) = 2
    /\ points[2].t = 0
    /\ elapsed = 2

\* C29: every questionnaire record passed to onConfirm (held by App from
\* the instruction screen on) has a non-empty age and a movement-disorder
\* answer, and its disorderType is empty when the answer is 'no' and
\* non-empty when it is 'yes'.
C29_RecordConsistent ==
    currentScreen \in {"instruction", "canvas", "processing", "report"} =>
        /\ questionnaireData.age # ""
        /\ questionnaireData.hasMovementDisorder \in {"yes", "no"}
        /\ questionnaireData.hasMovementDisorder = "no"
              => questionnaireData.disorderType = ""
        /\ questionnaireData.hasMovementDisorder = "yes"
              => questionnaireData.disorderType # ""

\* a record with the answer 'no' has just been confirmed
C29_Witness ==
    /\ currentScreen = "instruction"
    /\ questionnaireData.age = "45"
    /\ questionnaireData.hasMovementDisorder = "no"
    /\ questionnaireData.disorderType = ""

\* the adjusted score of run k of RuleSpec: the mean of the two capped
\* sub-scores, plus 0.3 when hasMovementDisorder is 'yes'
Adjusted(k) ==
    EqualWeightMean(results[k].features)
    + (IF results[k].patientInfo.hasMovementDisorder = "yes" THEN 300 ELSE 0)

\* C30: in the demo scorer the final score differs from the adjusted score
\* by at most 0.2 in every run and never exceeds 2.5 (2.2 without a
\* movement disorder), so the upper clamp at 3 is never active.
C30_WithinRandomBand ==
    \A k \in 1..2 :
        results[k].scored # Null =>
            /\ Abs(results[k].scored.severity_score - Adjusted(k)) <= 200
            /\ results[k].scored.severity_score <= 2500
            /\ results[k].patientInfo.hasMovementDisorder = "no"
                  => results[k].scored.severity_score <= 2200
            /\ Unclamped(k) <= 3000

\* one run in which the lower clamp acted, and one with both sub-scores at
\* their cap, a movement disorder and a draw of 0.995: a score of 2.498
C30_Witness ==
    /\ BothScored(1, 2)
    /\ Unclamped(1) < 0
    /\ results[1].scored.severity_score = 0
    /\ results[2].scored.severity_score = 2498

=============================================================================
